---- MODULE Spec2Model ----
(***************************************************************************)
(* Model of app.py: the watchlist batch that rebuilds data.json from       *)
(* market data (yfinance), an optional AI enrichment with model failover   *)
(* (google.generativeai) and the previous data.json.                       *)
(*                                                                         *)
(* Representation of values                                                *)
(*  - A Python string the code takes apart (ticker ids, model names, the   *)
(*    --add argument, an AI response text) is a sequence of tokens, so     *)
(*    that replace / strip / upper / substring tests are computed and not  *)
(*    assumed.                                                             *)
(*  - A JSON value is a tagged record [k |-> kind, v |-> payload] with     *)
(*    kind in "obj", "arr", "str", "num", "ym", "numstr"; the payload of   *)
(*    an object is a function from its keys to JSON values.                *)
(*  - Prices are integers in thousandths; a value formatted with two       *)
(*    decimals is an integer in hundredths.                                *)
(***************************************************************************)
EXTENDS Integers, Sequences, FiniteSets, TLC

(***************************************************************************)
(* Bounds of the model                                                     *)
(***************************************************************************)
\* number of batch runs explored
MaxRuns == 2

(***************************************************************************)
(* Generic helpers                                                         *)
(***************************************************************************)
Range(s) == {s[n] : n \in DOMAIN s}

Last(s) == s[Len(s)]

\* the last n elements of s (pandas .tail(n), Python s[-n:])
Tail_n(s, n) == IF Len(s) <= n THEN s ELSE SubSeq(s, Len(s) - n + 1, Len(s))

\* str.replace(tok, ""): every occurrence of the token is removed
RemoveToken(s, tok) == SelectSeq(s, LAMBDA t : t # tok)

\* "sub in s" for a substring that is a whole token of s
Contains(s, sub) == \E n \in DOMAIN s : s[n] = sub

\* round(a / b) to the nearest integer, ties to even (Python round and the
\* "f" format both round the exact value half-to-even)
RoundDiv(a, b) ==
    LET aa == IF b < 0 THEN 0 - a ELSE a
        bb == IF b < 0 THEN 0 - b ELSE b
        q  == aa \div bb
        r  == aa % bb
    IN  IF 2 * r < bb THEN q
        ELSE IF 2 * r > bb THEN q + 1
        ELSE IF q % 2 = 0 THEN q ELSE q + 1

(***************************************************************************)
(* JSON values                                                             *)
(***************************************************************************)
EmptyFcn == [key \in {} |-> 0]

JObj(f) == [k |-> "obj", v |-> f]
JArr(s) == [k |-> "arr", v |-> s]
JStr(s) == [k |-> "str", v |-> s]
JNum(n) == [k |-> "num", v |-> n]
\* the string "YYYY-MM" of a <<year, month>> pair
JYm(ym) == [k |-> "ym", v |-> ym]

IsDict(j) == j.k = "obj"

\* dict.get(key, default) on a value that is a dict
DictGet(j, key, default) == IF key \in DOMAIN j.v THEN j.v[key] ELSE default

(***************************************************************************)
(* Strings of the program                                                  *)
(***************************************************************************)
\* category given to a ticker that has no previous record (the literal of
\* lines 193 and 232)
NewCategory == "newly added"

\* the sentinel of line 150
NoModel == <<"N/A">>

WhiteSpace == {" ", "\n"}

\* str.strip(): leading and trailing whitespace removed
RECURSIVE StripLeft(_)
StripLeft(s) ==
    IF s = <<>> THEN <<>>
    ELSE IF Head(s) \in WhiteSpace THEN StripLeft(Tail(s)) ELSE s

RECURSIVE StripRight(_)
StripRight(s) ==
    IF s = <<>> THEN <<>>
    ELSE IF Last(s) \in WhiteSpace THEN StripRight(SubSeq(s, 1, Len(s) - 1)) ELSE s

Strip(s) == StripRight(StripLeft(s))

\* str.upper() on the tokens an --add argument is made of
UpperToken(t) ==
    CASE t = "a"   -> "A"
      [] t = "b"   -> "B"
      [] t = ".tw" -> ".TW"
      [] OTHER     -> t

\* the id is taken as typed
Upper_AsTyped(s) == s

Upper(s) == [n \in DOMAIN s |-> UpperToken(s[n])]

(***************************************************************************)
(* 1. Model catalog (lines 16-36)                                          *)
(*    A model name "models/gemini-2.0-flash-exp" is the token sequence     *)
(*    <<"models/", "gemini", "2.0", "flash", "exp">>.  No word of the      *)
(*    vocabulary is a prefix of another, so comparing two names word by    *)
(*    word is the comparison of the strings.                               *)
(***************************************************************************)
WordRank(w) ==
    CASE w = "001"       -> 1
      [] w = "1.5"       -> 2
      [] w = "2.0"       -> 3
      [] w = "aqa"       -> 4
      [] w = "embedding" -> 5
      [] w = "exp"       -> 6
      [] w = "flash"     -> 7
      [] w = "gemini"    -> 8
      [] w = "models/"   -> 9
      [] w = "pro"       -> 10
      [] OTHER           -> 0

\* a < b for two names, as Python compares strings
RECURSIVE StrLess(_, _)
StrLess(a, b) ==
    IF b = <<>> THEN FALSE
    ELSE IF a = <<>> THEN TRUE
    ELSE IF Head(a) = Head(b) THEN StrLess(Tail(a), Tail(b))
    ELSE WordRank(Head(a)) < WordRank(Head(b))

\* insert x into a list sorted in descending order
RECURSIVE InsertDesc(_, _)
InsertDesc(x, s) ==
    IF s = <<>> THEN <<x>>
    ELSE IF StrLess(Head(s), x) THEN <<x>> \o s
    ELSE <<Head(s)>> \o InsertDesc(x, Tail(s))

\* the sort of line 21 left out
SortDesc_Unsorted(s) == s

\* list.sort(reverse=True)
RECURSIVE SortDesc(_)
SortDesc(s) == IF s = <<>> THEN <<>> ELSE InsertDesc(Head(s), SortDesc(Tail(s)))

defaults == << <<"models/", "gemini", "1.5", "pro">>,
               <<"models/", "gemini", "1.5", "flash">> >>

\* without the fallback of line 31: an empty final_list is returned
get_best_models_NoFallback(discovery) ==
    IF discovery.raises THEN defaults
    ELSE
      LET listed     == SelectSeq(discovery.models,
                           LAMBDA m : "generateContent" \in m.supported_generation_methods)
          all_models == SortDesc([n \in DOMAIN listed |-> listed[n].name])
          exp        == SelectSeq(all_models, LAMBDA m : Contains(m, "exp"))
          pro        == SelectSeq(all_models,
                           LAMBDA m : Contains(m, "pro") /\ ~Contains(m, "exp"))
          flash      == SelectSeq(all_models,
                           LAMBDA m : Contains(m, "flash") /\ ~Contains(m, "exp"))
      IN  exp \o pro \o flash

\* discovery is what genai.list_models() does: it raises, or it yields
\* descriptors [name, supported_generation_methods]
get_best_models(discovery) ==
    IF discovery.raises THEN defaults
    ELSE
      LET listed     == SelectSeq(discovery.models,
                           LAMBDA m : "generateContent" \in m.supported_generation_methods)
          all_models == SortDesc([n \in DOMAIN listed |-> listed[n].name])
          exp        == SelectSeq(all_models, LAMBDA m : Contains(m, "exp"))
          pro        == SelectSeq(all_models,
                           LAMBDA m : Contains(m, "pro") /\ ~Contains(m, "exp"))
          flash      == SelectSeq(all_models,
                           LAMBDA m : Contains(m, "flash") /\ ~Contains(m, "exp"))
          final_list == exp \o pro \o flash
      IN  IF final_list # <<>> THEN final_list ELSE defaults

(***************************************************************************)
(* Persisted state file (lines 90-97)                                      *)
(*    data.json is [kind, v]: kind "missing" (no file), "garbage" (text    *)
(*    json.load raises on), "json" (a JSON value that is not a list), or   *)
(*    "list" with v the list of its items.  An item that is a dict is the  *)
(*    function from its keys; an item that is not a dict is a tagged JSON  *)
(*    value.                                                               *)
(***************************************************************************)
get_current_list(f) == IF f.kind = "list" THEN f.v ELSE <<>>

\* a JSON number in the place of a ticker id (a Python int, which has no
\* replace method)
NumericId == <<"#2330">>

\* item['id'] of line 221 evaluates: the item is a dict and has the key
HasId(item) == "id" \in DOMAIN item

(***************************************************************************)
(* 2. Market facts (lines 106-146)                                         *)
(*    One call of get_stock_data sees a market outcome mk:                 *)
(*      fast  [raises, last_price, previous_close]   ticker.fast_info      *)
(*      h5    [raises, closes]           ticker.history(period="5d")       *)
(*      news_raises                      ticker.news                       *)
(*      hist  [raises, rows]             ticker.history(period="1y"),      *)
(*                                       rows of [date <<y,m,d>>, close]   *)
(*      info  [raises, v]                ticker.info, v a dict             *)
(***************************************************************************)
\* "0%", the default of line 107
ZeroPct == <<"0%", 0>>

\* f"{x:+.2f}%" of x = num / den * 100, as <<"+.2f%", hundredths>>
FormatPct(num, den) == <<"+.2f%", RoundDiv(num * 10000, den)>>

\* float(change_pct.strip('%')), in hundredths
PctValue(change_pct) == change_pct[2]

\* lines 107-121: the price and the change percent; an exception inside the
\* block keeps what was assigned before it
CollectPrice(mk) ==
    IF mk.fast.raises THEN [price |-> 0, change_pct |-> ZeroPct]
    ELSE
      LET p0 == mk.fast.last_price
          v0 == mk.fast.previous_close
          pct(price, prev) ==
              IF price # 0 /\ prev # 0 THEN FormatPct(price - prev, prev) ELSE ZeroPct
      IN  IF p0 # 0 THEN [price |-> p0, change_pct |-> pct(p0, v0)]
          ELSE IF mk.h5.raises THEN [price |-> 0, change_pct |-> ZeroPct]
          ELSE IF mk.h5.closes = <<>> THEN [price |-> 0, change_pct |-> pct(0, v0)]
          ELSE IF Len(mk.h5.closes) = 1
               \* iloc[-2] raises IndexError after price was assigned
               THEN [price |-> Last(mk.h5.closes), change_pct |-> ZeroPct]
          ELSE LET c == mk.h5.closes
               IN  [price |-> Last(c), change_pct |-> pct(Last(c), c[Len(c) - 1])]

\* resample('ME').last(): the last close of every month, in date order (the
\* rows are daily rows in date order, every month of the range has a row)
RECURSIVE MonthEndLast(_)
MonthEndLast(rows) ==
    IF rows = <<>> THEN <<>>
    ELSE LET rest == MonthEndLast(Tail(rows))
             d    == Head(rows).date
         IN  IF rest # <<>> /\ Head(rest).ym = <<d[1], d[2]>>
             THEN rest
             ELSE <<[ym |-> <<d[1], d[2]>>, close |-> Head(rows).close]>> \o rest

\* .tail(12)
ChartPoints == 12

\* lines 139-143: chart_dates and chart_prices
ChartSeries(rows) ==
    IF rows = <<>> THEN [dates |-> <<>>, price |-> <<>>]
    ELSE LET res == Tail_n(MonthEndLast(rows), ChartPoints)
         IN  [dates |-> [n \in DOMAIN res |-> JYm(res[n].ym)],
              price |-> [n \in DOMAIN res |-> JNum(RoundDiv(res[n].close, 10))]]

(***************************************************************************)
(* 3. Failover over MODEL_PRIORITY (lines 162-173)                         *)
(*    The answer of one invocation is [raises, text]; text is a token      *)
(*    sequence over the fence tokens, whitespace and one-token bodies.     *)
(***************************************************************************)
\* what the model supplies as its own river arrays
AiDates == JArr(<<JYm(<<1999, 1>>)>>)
AiPrice == JArr(<<JNum(100)>>)

AiFull ==
    JObj([industry    |-> JObj([moat_status |-> JStr("wide")]),
          financials  |-> JObj([
              eps_table     |-> JArr(<<JObj([period |-> JStr("2025Q1")])>>),
              revenue_trend |-> JArr(<<JObj([month |-> JStr("2024-11")])>>),
              valuation     |-> JObj([
                  pe_status     |-> JStr("cheap"),
                  pb            |-> JStr("9.9"),
                  roe           |-> JStr("30%"),
                  pe_river_data |-> JObj([dates |-> AiDates,
                                          price |-> AiPrice,
                                          pe20  |-> JArr(<<JNum(20)>>),
                                          pe16  |-> JArr(<<JNum(16)>>),
                                          pe12  |-> JArr(<<JNum(12)>>)])])]),
          technical   |-> JObj([signal_light |-> JStr("red_flash")]),
          news_events |-> JObj([news |-> JArr(<<JObj([title |-> JStr("t")])>>),
                                calendar |-> JArr(<<>>)]),
          dividend    |-> JObj([yield |-> JStr("2%")]),
          memo        |-> JStr("ai memo"),
          category    |-> JStr("ai category")])

\* the bodies json.loads accepts, by token
JsonDoc(tok) ==
    CASE tok = "{full}"   -> AiFull
      [] tok = "{}"       -> JObj(EmptyFcn)
      [] tok = "[]"       -> JArr(<<>>)
      [] tok = "{badsub}" -> JObj([financials |-> JStr("n/a")])
      [] tok = "{badval}" -> JObj([financials |-> JObj([valuation |-> JArr(<<>>)])])
      [] tok = "{badriv}" -> JObj([financials |->
                                 JObj([valuation |-> JObj([pe_river_data |-> JStr("-")])])])

JsonTokens == {"{full}", "{}", "[]", "{badsub}", "{badval}", "{badriv}"}

\* the two code-fence markers of line 167 (three backquotes, with and without
\* the word json)
FenceJson == "~~~json"
Fence == "~~~"

\* line 167: json.loads of the text with both code-fence markers replaced by
\* "" and then stripped; ok is FALSE where json.loads raises
ParseResponse(text) ==
    LET body == Strip(RemoveToken(RemoveToken(text, FenceJson), Fence))
    IN  IF Len(body) = 1 /\ body[1] \in JsonTokens
        THEN [ok |-> TRUE, v |-> JsonDoc(body[1])]
        ELSE [ok |-> FALSE, v |-> JObj(EmptyFcn)]

\* the loop without its break: a later model that succeeds overrides
RECURSIVE Failover_NoBreak(_, _, _)
Failover_NoBreak(models, answers, n) ==
    IF n > Len(models)
    THEN [ai_res |-> JObj(EmptyFcn), model_used |-> NoModel, invoked |-> <<>>]
    ELSE LET parsed == ParseResponse(answers[n].text)
             rest   == Failover_NoBreak(models, answers, n + 1)
         IN  IF ~answers[n].raises /\ parsed.ok /\ rest.model_used = NoModel
             THEN [ai_res     |-> parsed.v,
                   model_used |-> RemoveToken(models[n], "models/"),
                   invoked    |-> <<n>> \o rest.invoked]
             ELSE [rest EXCEPT !.invoked = <<n>> \o @]

\* the loop of lines 162-173 from position n on; answers[n] is what the n-th
\* model of the list does when invoked.  invoked is the list of positions
\* that were invoked.
RECURSIVE Failover(_, _, _)
Failover(models, answers, n) ==
    IF n > Len(models)
    THEN [ai_res |-> JObj(EmptyFcn), model_used |-> NoModel, invoked |-> <<>>]
    ELSE LET parsed == ParseResponse(answers[n].text)
         IN  IF ~answers[n].raises /\ parsed.ok
             THEN [ai_res     |-> parsed.v,
                   model_used |-> RemoveToken(models[n], "models/"),
                   invoked    |-> <<n>>]
             ELSE LET rest == Failover(models, answers, n + 1)
                  IN  [rest EXCEPT !.invoked = <<n>> \o @]

(***************************************************************************)
(* 4. get_stock_data (lines 99-217)                                        *)
(***************************************************************************)
\* the default AI sections of lines 199-212
DefaultNewsEvents == JObj([news |-> JArr(<<>>), calendar |-> JArr(<<>>)])
\* the technical section defaults to {} like the other sections
DefaultTechnical_Empty == JObj(EmptyFcn)

DefaultTechnical == JObj([signal_light |-> JStr("stable")])
Dash == JStr("-")

\* str(ticker.info.get("priceToBook", "-")), line 206
PbText(info) ==
    IF "priceToBook" \in DOMAIN info THEN [k |-> "numstr", v |-> info["priceToBook"]]
    ELSE Dash

\* line 197: price, change and changePercent of the record.  The change is
\* price - price / (1 + pct / 100), formatted with sign and two decimals;
\* div0 is TRUE where the division raises ZeroDivisionError.
BasicInfo(price, change_pct) ==
    LET n == PctValue(change_pct)
    IN  [div0 |-> (10000 + n = 0),
         v    |-> [price         |-> RoundDiv(price, 10),
                   change        |-> IF 10000 + n = 0 THEN 0
                                     ELSE RoundDiv(price * n, 10 * (10000 + n)),
                   changePercent |-> change_pct]]

\* the annotation is lost: the default is written whatever the old record holds
Annotation_Dropped(old_data, field, default) == default

\* lines 193 and 196: old_data.get(field, default) if old_data else default
Annotation(old_data, field, default) ==
    IF DOMAIN old_data # {} /\ field \in DOMAIN old_data
    THEN old_data[field] ELSE default

\* lines 176-213, entered with a price that is not 0 and the 1y history
\* read; raised is TRUE where an exception leaves the merge
MergeRecord(stock_id, old_data, price, change_pct, series, info, hasName, ai_res, model_used, now) ==
    LET fin   == IF IsDict(ai_res) THEN DictGet(ai_res, "financials", JObj(EmptyFcn))
                 ELSE JObj(EmptyFcn)
        val   == IF IsDict(fin) THEN DictGet(fin, "valuation", JObj(EmptyFcn))
                 ELSE JObj(EmptyFcn)
        riv   == IF IsDict(val) THEN DictGet(val, "pe_river_data", JObj(EmptyFcn))
                 ELSE JObj(EmptyFcn)
        basic == BasicInfo(price, change_pct)
        final_river == [dates |-> JArr(series.dates),
                        price |-> JArr(series.price),
                        pe20  |-> DictGet(riv, "pe20", JArr(<<>>)),
                        pe16  |-> DictGet(riv, "pe16", JArr(<<>>)),
                        pe12  |-> DictGet(riv, "pe12", JArr(<<>>))]
        raised == \/ ~IsDict(ai_res) \/ ~IsDict(fin) \/ ~IsDict(val) \/ ~IsDict(riv)
                  \/ basic.div0
                  \/ info.raises
    IN  [raised |-> raised,
         rec |->
           IF raised THEN EmptyFcn
           ELSE
           [id          |-> stock_id,
            name        |-> IF hasName /\ "longName" \in DOMAIN info.v
                            THEN info.v["longName"] ELSE stock_id,
            category    |-> Annotation(old_data, "category", NewCategory),
            lastUpdated |-> now,
            ai_model    |-> model_used,
            memo        |-> Annotation(old_data, "memo", ""),
            basicInfo   |-> basic.v,
            industry    |-> DictGet(ai_res, "industry", JObj(EmptyFcn)),
            news_events |-> DictGet(ai_res, "news_events", DefaultNewsEvents),
            financials  |->
               [eps_table     |-> DictGet(fin, "eps_table", JArr(<<>>)),
                revenue_trend |-> DictGet(fin, "revenue_trend", JArr(<<>>)),
                valuation     |-> [pe_status     |-> DictGet(val, "pe_status", Dash),
                                   pb            |-> PbText(info.v),
                                   roe           |-> DictGet(val, "roe", Dash),
                                   pe_river_data |-> final_river]],
            technical   |-> DictGet(ai_res, "technical", DefaultTechnical),
            dividend    |-> DictGet(ai_res, "dividend", JObj(EmptyFcn))]]

\* without the try of line 103: an exception leaves the call
get_stock_data_Propagates(target_id, old_data, mk, answers, key, models, now) ==
    LET stock_id == RemoveToken(target_id, ".TW")
        facts    == CollectPrice(mk)
        none(why, invoked, collected, series) ==
            [ret |-> IF why = "except" THEN "raise" ELSE "None", why |-> why, rec |-> EmptyFcn, invoked |-> invoked,
             price |-> facts.price, collected |-> collected, series |-> series]
        noSeries == [dates |-> <<>>, price |-> <<>>]
    IN  IF target_id = NumericId
        THEN [ret |-> "raise", why |-> "line100", rec |-> EmptyFcn, invoked |-> <<>>,
              price |-> 0, collected |-> FALSE, series |-> noSeries]
        ELSE IF facts.price = 0 THEN none("zero", <<>>, FALSE, noSeries)
        ELSE IF mk.hist.raises THEN none("except", <<>>, FALSE, noSeries)
        ELSE
          LET series == ChartSeries(mk.hist.rows)
          IN  IF key /\ mk.info.raises THEN none("except", <<>>, TRUE, series)
              ELSE
                LET ai == IF key THEN Failover(models, answers, 1)
                          ELSE [ai_res |-> JObj(EmptyFcn), model_used |-> NoModel,
                                invoked |-> <<>>]
                    m  == MergeRecord(stock_id, old_data, facts.price,
                                      facts.change_pct, series, mk.info, key,
                                      ai.ai_res, ai.model_used, now)
                IN  IF m.raised THEN none("except", ai.invoked, TRUE, series)
                    ELSE [ret |-> "rec", why |-> "ok", rec |-> m.rec,
                          invoked |-> ai.invoked, price |-> facts.price,
                          collected |-> TRUE, series |-> series]

\* The whole call.  key and models are GEMINI_API_KEY and MODEL_PRIORITY,
\* now is datetime.now().  The result tells what was returned (ret "rec" or
\* "None", or "raise" for an exception that leaves the call), why ("ok",
\* "zero" for line 123, "except" for line 217, "line100"), which
\* positions of the model list were invoked, and the chart series when the
\* call got as far as computing it.
get_stock_data(target_id, old_data, mk, answers, key, models, now) ==
    LET stock_id == RemoveToken(target_id, ".TW")
        facts    == CollectPrice(mk)
        none(why, invoked, collected, series) ==
            [ret |-> "None", why |-> why, rec |-> EmptyFcn, invoked |-> invoked,
             price |-> facts.price, collected |-> collected, series |-> series]
        noSeries == [dates |-> <<>>, price |-> <<>>]
    IN  IF target_id = NumericId
        \* line 100 is outside the try: target_id.replace raises out of the call
        THEN [ret |-> "raise", why |-> "line100", rec |-> EmptyFcn, invoked |-> <<>>,
              price |-> 0, collected |-> FALSE, series |-> noSeries]
        ELSE IF facts.price = 0 THEN none("zero", <<>>, FALSE, noSeries)
        ELSE IF mk.hist.raises THEN none("except", <<>>, FALSE, noSeries)
        ELSE
          LET series == ChartSeries(mk.hist.rows)
          IN  IF key /\ mk.info.raises THEN none("except", <<>>, TRUE, series)
              ELSE
                LET ai == IF key THEN Failover(models, answers, 1)
                          ELSE [ai_res |-> JObj(EmptyFcn), model_used |-> NoModel,
                                invoked |-> <<>>]
                    m  == MergeRecord(stock_id, old_data, facts.price,
                                      facts.change_pct, series, mk.info, key,
                                      ai.ai_res, ai.model_used, now)
                IN  IF m.raised THEN none("except", ai.invoked, TRUE, series)
                    ELSE [ret |-> "rec", why |-> "ok", rec |-> m.rec,
                          invoked |-> ai.invoked, price |-> facts.price,
                          collected |-> TRUE, series |-> series]

(***************************************************************************)
(* Inputs of the environment, drawn from small sets                        *)
(***************************************************************************)
\* one daily row per month of 2024 and two rows in January 2025: 13 months
Rows13 ==
    [n \in 1..14 |->
        IF n <= 12 THEN [date |-> <<2024, n, 28>>, close |-> 500000 + n * 1006]
        ELSE [date |-> <<2025, 1, n - 11>>, close |-> 520000 + n * 1006]]

Rows2 == << [date |-> <<2025, 1, 30>>, close |-> 548004],
            [date |-> <<2025, 1, 31>>, close |-> 549996],
            [date |-> <<2025, 2, 3>>,  close |-> 551000] >>

NoFast == [raises |-> TRUE, last_price |-> 0, previous_close |-> 0]
NoH5 == [raises |-> FALSE, closes |-> <<>>]
InfoFull == [raises |-> FALSE, v |-> [longName |-> <<"TSMC">>, priceToBook |-> 250]]
InfoBare == [raises |-> FALSE, v |-> EmptyFcn]
InfoDown == [raises |-> TRUE, v |-> EmptyFcn]

MarketNames == {"quote", "fallback", "onerow", "zero", "down",
                "hist_raises", "info_raises", "tiny"}

Market(name) ==
    CASE name = "quote" ->
           [fast |-> [raises |-> FALSE, last_price |-> 550000, previous_close |-> 540000],
            h5 |-> NoH5, news_raises |-> FALSE,
            hist |-> [raises |-> FALSE, rows |-> Rows13], info |-> InfoFull]
      [] name = "fallback" ->
           [fast |-> [raises |-> FALSE, last_price |-> 0, previous_close |-> 0],
            h5 |-> [raises |-> FALSE, closes |-> <<560000, 540000, 550000>>],
            news_raises |-> TRUE,
            hist |-> [raises |-> FALSE, rows |-> <<>>], info |-> InfoBare]
      [] name = "onerow" ->
           [fast |-> [raises |-> FALSE, last_price |-> 0, previous_close |-> 540000],
            h5 |-> [raises |-> FALSE, closes |-> <<551000>>],
            news_raises |-> FALSE,
            hist |-> [raises |-> FALSE, rows |-> Rows2], info |-> InfoFull]
      [] name = "zero" ->
           [fast |-> [raises |-> FALSE, last_price |-> 0, previous_close |-> 540000],
            h5 |-> NoH5, news_raises |-> FALSE,
            hist |-> [raises |-> FALSE, rows |-> Rows13], info |-> InfoFull]
      [] name = "down" ->
           [fast |-> NoFast, h5 |-> [raises |-> TRUE, closes |-> <<>>],
            news_raises |-> TRUE,
            hist |-> [raises |-> TRUE, rows |-> <<>>], info |-> InfoDown]
      [] name = "hist_raises" ->
           [fast |-> [raises |-> FALSE, last_price |-> 550000, previous_close |-> 540000],
            h5 |-> NoH5, news_raises |-> FALSE,
            hist |-> [raises |-> TRUE, rows |-> <<>>], info |-> InfoFull]
      [] name = "info_raises" ->
           [fast |-> [raises |-> FALSE, last_price |-> 550000, previous_close |-> 540000],
            h5 |-> NoH5, news_raises |-> FALSE,
            hist |-> [raises |-> FALSE, rows |-> Rows13], info |-> InfoDown]
      [] name = "tiny" ->
           \* 0.01 after 200.01: the change percent formats as -100.00%
           [fast |-> [raises |-> FALSE, last_price |-> 10, previous_close |-> 200010],
            h5 |-> NoH5, news_raises |-> FALSE,
            hist |-> [raises |-> FALSE, rows |-> Rows2], info |-> InfoFull]

AnswerNames == {"error", "prose", "fenced", "list", "badsub"}

Answer(name) ==
    CASE name = "error"  -> [raises |-> TRUE, text |-> <<>>]
      [] name = "prose"  -> [raises |-> FALSE, text |-> <<"Sorry,", " ", "{full}">>]
      [] name = "fenced" -> [raises |-> FALSE,
                             text |-> <<FenceJson, "\n", "{full}", "\n", Fence, "\n">>]
      [] name = "list"   -> [raises |-> FALSE, text |-> <<"[]">>]
      [] name = "badsub" -> [raises |-> FALSE, text |-> <<" ", "{badsub}">>]

Gen == {"generateContent"}

Catalog3 ==
    << [name |-> <<"models/", "gemini", "1.5", "flash">>, supported_generation_methods |-> Gen],
       [name |-> <<"models/", "gemini", "2.0", "pro">>, supported_generation_methods |-> Gen],
       [name |-> <<"models/", "embedding", "001">>, supported_generation_methods |-> {"embedContent"}],
       [name |-> <<"models/", "gemini", "2.0", "flash", "exp">>, supported_generation_methods |-> Gen],
       [name |-> <<"models/", "aqa">>, supported_generation_methods |-> Gen] >>

\* the descriptors a listing is made of: models of every tier, of two tiers
\* at once, of no tier, and one that does not generate content
ModelPool ==
    { [name |-> <<"models/", "gemini", "1.5", "flash">>, supported_generation_methods |-> Gen],
      [name |-> <<"models/", "gemini", "2.0", "pro">>, supported_generation_methods |-> Gen],
      [name |-> <<"models/", "gemini", "2.0", "flash", "exp">>, supported_generation_methods |-> Gen],
      [name |-> <<"models/", "gemini", "2.0", "pro", "exp">>, supported_generation_methods |-> Gen],
      [name |-> <<"models/", "gemini", "2.0", "pro", "flash">>, supported_generation_methods |-> Gen],
      [name |-> <<"models/", "gemini", "1.5", "pro">>, supported_generation_methods |-> {"embedContent"}],
      [name |-> <<"models/", "aqa">>, supported_generation_methods |-> Gen] }

\* longest listing explored
MaxListed == 4

\* what genai.list_models() can do: raise, or list up to MaxListed models
Listings ==
    { [raises |-> TRUE, models |-> <<>>] }
    \cup { [raises |-> FALSE, models |-> ms] :
             ms \in UNION { [1..k -> ModelPool] : k \in 0..MaxListed } }

DiscoveryFails == [raises |-> TRUE, models |-> <<>>]

\* a listing with a model whose name holds both "pro" and "flash"
CatalogTwoTier ==
    << [name |-> <<"models/", "gemini", "1.5", "flash">>, supported_generation_methods |-> Gen],
       [name |-> <<"models/", "gemini", "2.0", "pro", "flash">>, supported_generation_methods |-> Gen] >>

Discoveries == { DiscoveryFails,
                 [raises |-> FALSE, models |-> Catalog3],
                 [raises |-> FALSE, models |-> CatalogTwoTier] }

\* values of --add; <<>> is the flag left out
AddArgs == { <<>>, <<"A">>, <<" ", "b", " ">>, <<"a", ".tw">> }

\* the stock ids the --add values lead to
StockIds == { <<"A">>, <<"B">> }

\* the inputs of a call inside the batch specifications: a quote, a price of
\* 0 and an exception; a model that answers prose and one that answers JSON
BatchMarkets == {"quote", "zero", "hist_raises"}
BatchAnswers == {"prose", "fenced"}

\* the answer written down for a model that is not invoked
NotAsked == "prose"

UserCategory == "core holding"
UserMemo == "watch for earnings"

(***************************************************************************)
(* State                                                                   *)
(***************************************************************************)
VARIABLES
    file,            \* content of data.json
    now,             \* the clock, one tick per run
    runs,            \* runs started so far
    pc,              \* "idle", "listed" (line 36 done), "loop" (inside a run),
                     \* "done" (run just wrote), "crashed" (an exception left
                     \* the main block)
    GEMINI_API_KEY,  \* TRUE where the environment variable is set
    MODEL_PRIORITY,
    current,
    old_map,
    targets,
    idx,             \* position of the for loop of line 235 in targets
    final,
    kept,            \* per processed target: [sid, how, why], how "fresh",
                     \* "carried" or "dropped", why as get_stock_data tells
    last,            \* what the last call of get_stock_data saw and did
    world,           \* market outcome per stock id while the market is frozen
    frozen,          \* runs started since the market was frozen
    args,            \* the parsed command line, [add |-> value of --add]
    listing          \* what genai.list_models() did when the process started

vars == <<file, now, runs, pc, GEMINI_API_KEY, MODEL_PRIORITY, current, old_map,
          targets, idx, final, kept, last, world, frozen, args, listing>>

NoCall == [sid |-> <<>>, mk |-> "", answers |-> <<>>, out |-> [ret |-> "none"]]

Init ==
    /\ file = [kind |-> "missing", v |-> <<>>]
    /\ now = 0
    /\ runs = 0
    /\ pc = "idle"
    /\ GEMINI_API_KEY = FALSE
    /\ MODEL_PRIORITY = defaults
    /\ current = <<>>
    /\ old_map = EmptyFcn
    /\ targets = <<>>
    /\ idx = 1
    /\ final = <<>>
    /\ kept = <<>>
    /\ last = NoCall
    /\ world = EmptyFcn
    /\ frozen = 0
    /\ args = [add |-> <<>>]
    /\ listing = [raises |-> TRUE, models |-> <<>>]

(***************************************************************************)
(* 5. The main block (lines 219-245)                                       *)
(***************************************************************************)
\* the ids of a list of records
Ids(recs) == [n \in DOMAIN recs |-> recs[n].id]

\* list(old_map.keys()): the ids in order of first occurrence
RECURSIVE KeyOrder(_)
KeyOrder(ids) ==
    IF ids = <<>> THEN <<>>
    ELSE LET front == KeyOrder(SubSeq(ids, 1, Len(ids) - 1))
         IN  IF Last(ids) \in Range(front) THEN front ELSE front \o <<Last(ids)>>

\* line 221: a later item with the same id replaces an earlier one
OldMapOf(recs) ==
    [i \in Range(Ids(recs)) |->
        recs[CHOOSE n \in DOMAIN recs :
                /\ recs[n].id = i
                /\ \A m \in DOMAIN recs : recs[m].id = i => m <= n]]

\* the new id is appended instead of inserted at the front
AddTarget_Appends(add, keys, om) ==
    LET nid == Upper(Strip(add))
    IN  IF add # <<>> /\ nid \notin Range(keys)
        THEN [targets |-> keys \o <<nid>>,
              old_map |-> [i \in DOMAIN om \cup {nid} |->
                             IF i = nid THEN [category |-> NewCategory] ELSE om[i]]]
        ELSE [targets |-> keys, old_map |-> om]

\* lines 227-232: the targets and the map after the --add handling
AddTarget(add, keys, om) ==
    LET nid == Upper(Strip(add))
    IN  IF add # <<>> /\ nid \notin Range(keys)
        THEN [targets |-> <<nid>> \o keys,
              old_map |-> [i \in DOMAIN om \cup {nid} |->
                             IF i = nid THEN [category |-> NewCategory] ELSE om[i]]]
        ELSE [targets |-> keys, old_map |-> om]

\* lines 12-36 and 220-234: start of the process up to the loop.  The
\* comprehension of line 221 is in no try: an item without 'id' ends the
\* process there.
Begin(key, discovery, add) ==
    /\ pc \in {"idle", "done"}
    /\ LET cur == get_current_list(file)
           ok  == \A n \in DOMAIN cur : HasId(cur[n])
           t   == AddTarget(add, KeyOrder(Ids(cur)), OldMapOf(cur))
       IN  /\ GEMINI_API_KEY' = key
           /\ MODEL_PRIORITY' = get_best_models(discovery)
           /\ current' = cur
           /\ targets' = IF ok THEN t.targets ELSE <<>>
           /\ old_map' = IF ok THEN t.old_map ELSE EmptyFcn
           /\ pc' = IF ok THEN "loop" ELSE "crashed"
    /\ args' = [add |-> add]
    /\ listing' = discovery
    /\ now' = now + 1
    /\ runs' = runs + 1
    /\ idx' = 1
    /\ final' = <<>>
    /\ kept' = <<>>
    /\ last' = NoCall
    /\ UNCHANGED file

\* the carried record gets the time of this run
CarriedRecord_Restamped(om, sid) == [om[sid] EXCEPT !.lastUpdated = now]

\* line 241: what is appended for a ticker that has no fresh record
CarriedRecord(om, sid) == om[sid]

\* nothing is carried: a ticker without fresh record is left out
Carries_Never(om, sid) == FALSE

\* a record without name is carried like any other
Carries_Nameless(om, sid) == sid \in DOMAIN om

\* line 241: the condition under which the previous record is appended
Carries(om, sid) == sid \in DOMAIN om /\ "name" \in DOMAIN om[sid]

\* lines 235-242: one iteration of the loop, the call of get_stock_data
\* seeing market outcome mk and the answers ans of the models
Iterate(mk, ans) ==
    /\ pc = "loop"
    /\ idx <= Len(targets)
    /\ LET sid == targets[idx]
           old == old_map[sid]
           out == get_stock_data(sid, old, Market(mk),
                                 [n \in DOMAIN ans |-> Answer(ans[n])],
                                 GEMINI_API_KEY, MODEL_PRIORITY, now)
           res == out.ret = "rec"
           carry == ~res /\ Carries(old_map, sid)
       IN  /\ \A n \in DOMAIN ans : n \notin Range(out.invoked) => ans[n] = NotAsked
           /\ last' = [sid |-> sid, mk |-> mk,
                       answers |-> [n \in DOMAIN out.invoked |-> ans[out.invoked[n]]],
                       out |-> out]
           /\ IF out.ret = "raise"
              THEN \* an exception that leaves get_stock_data ends the process
                   /\ pc' = "crashed"
                   /\ UNCHANGED <<final, kept, idx>>
              ELSE /\ final' = IF res THEN Append(final, out.rec)
                               ELSE IF carry THEN Append(final, CarriedRecord(old_map, sid))
                               ELSE final
                   /\ kept' = Append(kept,
                                [sid |-> sid,
                                 how |-> IF res THEN "fresh"
                                         ELSE IF carry THEN "carried" ELSE "dropped",
                                 why |-> out.why])
                   /\ idx' = idx + 1
                   /\ pc' = pc
    /\ UNCHANGED <<file, now, runs, GEMINI_API_KEY, MODEL_PRIORITY, current,
                   old_map, targets, args, listing>>

\* the write does not wait for the end of the loop
WriteFile_Early ==
    /\ pc = "loop"
    /\ file' = [kind |-> "list", v |-> final]
    /\ pc' = "done"
    /\ UNCHANGED <<now, runs, GEMINI_API_KEY, MODEL_PRIORITY, current, old_map,
                   targets, idx, final, kept, last, world, frozen, args, listing>>

\* lines 244-245
WriteFile ==
    /\ pc = "loop"
    /\ idx > Len(targets)
    /\ file' = [kind |-> "list", v |-> final]
    /\ pc' = "done"
    /\ UNCHANGED <<now, runs, GEMINI_API_KEY, MODEL_PRIORITY, current, old_map,
                   targets, idx, final, kept, last, world, frozen, args, listing>>

(***************************************************************************)
(* Spec: the batch run again and again, the user editing in between        *)
(***************************************************************************)
BeginRun ==
    /\ frozen = 0
    /\ runs < MaxRuns
    /\ \E key \in BOOLEAN, add \in AddArgs : Begin(key, DiscoveryFails, add)
    /\ UNCHANGED <<world, frozen>>

ProcessTarget ==
    /\ frozen = 0
    /\ \E mk \in BatchMarkets, ans \in [DOMAIN MODEL_PRIORITY -> BatchAnswers] :
          Iterate(mk, ans)
    /\ UNCHANGED <<world, frozen>>

\* between two runs the user edits the category and the memo of one record
UserEdit ==
    /\ frozen = 0
    /\ pc \in {"idle", "done"}
    /\ file.kind = "list"
    /\ \E n \in DOMAIN file.v :
         /\ file.v[n].category # UserCategory
         /\ file' = [file EXCEPT !.v[n].category = UserCategory,
                                 !.v[n].memo = UserMemo]
    /\ pc' = "idle"
    /\ UNCHANGED <<now, runs, GEMINI_API_KEY, MODEL_PRIORITY, current, old_map,
                   targets, idx, final, kept, last, world, frozen, args, listing>>

Next == BeginRun \/ ProcessTarget \/ WriteFile \/ UserEdit

Spec == Init /\ [][Next]_vars

(***************************************************************************)
(* FairSpec: the loop and the final write are steps of one sequential      *)
(* process, which keeps running once started                               *)
(***************************************************************************)
FairSpec == Spec /\ WF_vars(ProcessTarget) /\ WF_vars(WriteFile)

(***************************************************************************)
(* SpecCall: one call of get_stock_data with every input of the model.     *)
(* The initial states are the states at line 234 of a run that starts on   *)
(* an empty file with an added ticker, or on a file holding one record     *)
(* that an earlier run built.                                              *)
(***************************************************************************)
FencedByAll == [n \in 1..2 |-> Answer("fenced")]

\* a record built without AI, on a market that has no 1y history
PriorPlain ==
    get_stock_data(<<"A">>, [category |-> NewCategory], Market("fallback"),
                   FencedByAll, FALSE, defaults, 0).rec

\* a record built with AI, then annotated by the user
PriorAi ==
    [get_stock_data(<<"A", ".TW">>, [category |-> NewCategory], Market("onerow"),
                    FencedByAll, TRUE, defaults, 0).rec
       EXCEPT !.category = UserCategory, !.memo = UserMemo]

CallStarts ==
    { [file |-> [kind |-> "missing", v |-> <<>>],        add |-> <<"a", ".tw">>],
      [file |-> [kind |-> "list", v |-> <<PriorPlain>>], add |-> <<>>],
      [file |-> [kind |-> "list", v |-> <<PriorAi>>],    add |-> <<>>] }

InitCall ==
    \E st \in CallStarts, key \in BOOLEAN, discovery \in Discoveries :
       LET cur == get_current_list(st.file)
           t   == AddTarget(st.add, KeyOrder(Ids(cur)), OldMapOf(cur))
       IN  /\ ~key => discovery = DiscoveryFails
           /\ file = st.file
           /\ now = 1
           /\ runs = 1
           /\ pc = "loop"
           /\ GEMINI_API_KEY = key
           /\ MODEL_PRIORITY = get_best_models(discovery)
           /\ current = cur
           /\ old_map = t.old_map
           /\ targets = t.targets
           /\ idx = 1
           /\ final = <<>>
           /\ kept = <<>>
           /\ last = NoCall
           /\ world = EmptyFcn
           /\ frozen = 0
           /\ args = [add |-> st.add]
           /\ listing = discovery

Call ==
    /\ \E mk \in MarketNames, ans \in [DOMAIN MODEL_PRIORITY -> AnswerNames] :
          Iterate(mk, ans)
    /\ UNCHANGED <<world, frozen>>

NextCall == Call \/ WriteFile

SpecCall == InitCall /\ [][NextCall]_vars

(***************************************************************************)
(* SpecIdem: after some runs the market stops changing (world), and the    *)
(* batch is run twice in a row without API key and without --add           *)
(***************************************************************************)
\* runs before the market is frozen
MaxFreeRuns == 1

BeginFree ==
    /\ frozen = 0
    /\ runs < MaxFreeRuns
    /\ \E key \in BOOLEAN, add \in AddArgs : Begin(key, DiscoveryFails, add)
    /\ UNCHANGED <<world, frozen>>

BeginFrozen ==
    /\ frozen < 2
    /\ IF frozen = 0 THEN world' \in [StockIds -> BatchMarkets]
       ELSE pc = "done" /\ world' = world
    /\ Begin(FALSE, DiscoveryFails, <<>>)
    /\ frozen' = frozen + 1

ProcessFrozen ==
    /\ frozen > 0
    /\ pc = "loop"
    /\ idx <= Len(targets)
    /\ Iterate(world[RemoveToken(targets[idx], ".TW")],
               [n \in DOMAIN MODEL_PRIORITY |-> NotAsked])
    /\ UNCHANGED <<world, frozen>>

NextIdem ==
    BeginFree \/ ProcessTarget \/ WriteFile \/ UserEdit \/ BeginFrozen \/ ProcessFrozen

SpecIdem == Init /\ [][NextIdem]_vars

(***************************************************************************)
(* SpecFile: one run on every kind of data.json, also on content that no   *)
(* run has written                                                         *)
(***************************************************************************)
\* items of a list that are not records of the program: a number, a dict
\* without id, a dict with nothing but an id, a dict whose id is a number
ItemNumber == JNum(1)
ItemNoId == [name |-> <<"X">>]
ItemNameless == [id |-> <<"A">>]
ItemNumericId == [id |-> NumericId, name |-> <<"X">>]

FileStates ==
    { [kind |-> "missing", v |-> <<>>],
      [kind |-> "garbage", v |-> <<>>],
      [kind |-> "json",    v |-> <<>>],
      [kind |-> "list",    v |-> <<>>],
      [kind |-> "list",    v |-> <<PriorPlain>>],
      [kind |-> "list",    v |-> <<ItemNumber>>],
      [kind |-> "list",    v |-> <<ItemNoId>>],
      [kind |-> "list",    v |-> <<ItemNameless>>],
      [kind |-> "list",    v |-> <<ItemNumericId>>],
      [kind |-> "list",    v |-> <<PriorAi, ItemNumber>>] }

InitFile ==
    /\ file \in FileStates
    /\ now = 0
    /\ runs = 0
    /\ pc = "idle"
    /\ GEMINI_API_KEY = FALSE
    /\ MODEL_PRIORITY = defaults
    /\ current = <<>>
    /\ old_map = EmptyFcn
    /\ targets = <<>>
    /\ idx = 1
    /\ final = <<>>
    /\ kept = <<>>
    /\ last = NoCall
    /\ world = EmptyFcn
    /\ frozen = 0
    /\ args = [add |-> <<>>]
    /\ listing = [raises |-> TRUE, models |-> <<>>]

BeginOnFile ==
    /\ runs = 0
    /\ \E key \in BOOLEAN, add \in {<<>>, <<" ", "b", " ">>} :
          Begin(key, DiscoveryFails, add)
    /\ UNCHANGED <<world, frozen>>

NextFile == BeginOnFile \/ ProcessTarget \/ WriteFile

SpecFile == InitFile /\ [][NextFile]_vars

(***************************************************************************)
(* SpecCatalog: the module-level statements of lines 12-36 on every        *)
(* listing: MODEL_PRIORITY = get_best_models()                             *)
(***************************************************************************)
InitCatalog ==
    /\ file = [kind |-> "missing", v |-> <<>>]
    /\ now = 0
    /\ runs = 0
    /\ pc = "idle"
    /\ GEMINI_API_KEY = TRUE
    /\ MODEL_PRIORITY = <<>>
    /\ current = <<>>
    /\ old_map = EmptyFcn
    /\ targets = <<>>
    /\ idx = 1
    /\ final = <<>>
    /\ kept = <<>>
    /\ last = NoCall
    /\ world = EmptyFcn
    /\ frozen = 0
    /\ args = [add |-> <<>>]
    /\ listing \in Listings

\* line 36
LoadCatalog ==
    /\ pc = "idle"
    /\ MODEL_PRIORITY' = get_best_models(listing)
    /\ pc' = "listed"
    /\ UNCHANGED <<file, now, runs, GEMINI_API_KEY, current, old_map, targets, idx,
                   final, kept, last, world, frozen, args, listing>>

NextCatalog == LoadCatalog

SpecCatalog == InitCatalog /\ [][NextCatalog]_vars

(***************************************************************************)
(* Claims about one call of get_stock_data (checked under SpecCall)        *)
(***************************************************************************)
\* a call has been made
Called == last.mk # ""

\* the answer named a is one the loop accepts: no exception, and JSON
Succeeds(a) == ~Answer(a).raises /\ ParseResponse(Answer(a).text).ok

\* the last call reached the loop over the models
LoopEntered ==
    /\ Called
    /\ GEMINI_API_KEY
    /\ last.out.price # 0
    /\ last.out.collected
    /\ ~Market(last.mk).info.raises

\* the record has the AI sections of a call without AI result
HasAiDefaults(rec) ==
    /\ rec.industry = JObj(EmptyFcn)
    /\ rec.dividend = JObj(EmptyFcn)
    /\ rec.technical = JObj([signal_light |-> JStr("stable")])
    /\ rec.news_events = JObj([news |-> JArr(<<>>), calendar |-> JArr(<<>>)])
    /\ rec.financials.eps_table = JArr(<<>>)
    /\ rec.financials.revenue_trend = JArr(<<>>)
    /\ rec.financials.valuation.pe_status = JStr("-")
    /\ rec.financials.valuation.roe = JStr("-")
    /\ rec.financials.valuation.pe_river_data.pe20 = JArr(<<>>)
    /\ rec.financials.valuation.pe_river_data.pe16 = JArr(<<>>)
    /\ rec.financials.valuation.pe_river_data.pe12 = JArr(<<>>)

\* C1: a call whose collected price is not 0 returns a freshly built record,
\* never None, whatever the later steps do (news, 1y history, name lookup,
\* failing models, JSON of any shape).
C1_NonzeroPriceGivesRecord ==
    (Called /\ last.out.price # 0) => last.out.ret = "rec"

\* C2 as claimed: the models are invoked in list order from the first one,
\* every model before the last invoked one failed, the loop ends at the first
\* model that succeeds and otherwise runs through the whole list, and the
\* model-used field of the record is the identifier of the model that
\* succeeded.
C2_ModelUsedIsIdentifier ==
    Called =>
      LET inv == last.out.invoked
          a   == last.answers
      IN  /\ inv = [n \in 1..Len(inv) |-> n]
          /\ \A n \in 1..(Len(inv) - 1) : ~Succeeds(a[n])
          /\ LoopEntered =>
                /\ inv # <<>>
                /\ Succeeds(Last(a)) \/ Len(inv) = Len(MODEL_PRIORITY)
          /\ (inv # <<>> /\ Succeeds(Last(a)) /\ last.out.ret = "rec") =>
                last.out.rec.ai_model = MODEL_PRIORITY[Len(inv)]

\* C2 as amended: the same order of invocation, and the model-used field of
\* the record is the identifier of the model that succeeded with "models/"
\* removed.
C2_FailoverOrder ==
    Called =>
      LET inv == last.out.invoked
          a   == last.answers
      IN  /\ inv = [n \in 1..Len(inv) |-> n]
          /\ \A n \in 1..(Len(inv) - 1) : ~Succeeds(a[n])
          /\ LoopEntered =>
                /\ inv # <<>>
                /\ Succeeds(Last(a)) \/ Len(inv) = Len(MODEL_PRIORITY)
          /\ ~LoopEntered => inv = <<>>
          /\ (inv # <<>> /\ Succeeds(Last(a)) /\ last.out.ret = "rec") =>
                last.out.rec.ai_model = RemoveToken(MODEL_PRIORITY[Len(inv)], "models/")

\* two models answer prose, the third answers JSON and is the model used
C2_Witness ==
    /\ LoopEntered
    /\ Len(MODEL_PRIORITY) = 3
    /\ last.answers = <<"prose", "prose", "fenced">>
    /\ last.out.ret = "rec"
    /\ last.out.rec.ai_model = <<"gemini", "1.5", "flash">>

\* C3: with a price that is not 0, and no API key or every model of the list
\* failing, the call yields a record with model-used "N/A" and the default
\* AI sections.
C3_ExhaustionGivesDefaults ==
    ( /\ Called
      /\ last.out.price # 0
      /\ \/ ~GEMINI_API_KEY
         \/ /\ Len(last.out.invoked) = Len(MODEL_PRIORITY)
            /\ \A n \in DOMAIN last.answers : ~Succeeds(last.answers[n]) )
    => /\ last.out.ret = "rec"
       /\ last.out.rec.ai_model = <<"N/A">>
       /\ HasAiDefaults(last.out.rec)

\* C4: the record the run holds for a ticker whose month-end series was
\* collected has that series as river-chart dates and price.
C4_RiverIsThisRunsSeries ==
    (Called /\ last.out.collected /\ Last(kept).how # "dropped") =>
       LET riv == Last(final).financials.valuation.pe_river_data
       IN  /\ riv.dates = JArr(last.out.series.dates)
           /\ riv.price = JArr(last.out.series.price)

(***************************************************************************)
(* Claims about the batch (checked under Spec, FairSpec and SpecIdem)      *)
(***************************************************************************)
HasPrev(id) == \E n \in DOMAIN current : current[n].id = id

\* the record data.json held for the id when the run started (the last one,
\* should the list hold the id twice)
PrevRecord(id) ==
    current[CHOOSE n \in DOMAIN current :
               /\ current[n].id = id
               /\ \A m \in DOMAIN current : current[m].id = id => m <= n]

\* position in final of the record of the n-th processed target
FinalIndex(n) == Cardinality({m \in 1..n : kept[m].how # "dropped"})

\* the run has written what it assembled
Written == pc = "done" => file = [kind |-> "list", v |-> final]

\* C5: a freshly built record has the category and the memo of the previous
\* record of its target id, whatever the AI answered; for a target id
\* without previous record they are "newly added" and "".
C5_AnnotationsCarried ==
    /\ \A n \in DOMAIN kept :
          kept[n].how = "fresh" =>
             LET rec == final[FinalIndex(n)]
                 sid == kept[n].sid
             IN  IF HasPrev(sid)
                 THEN /\ rec.category = PrevRecord(sid).category
                      /\ rec.memo = PrevRecord(sid).memo
                 ELSE /\ rec.category = "newly added"
                      /\ rec.memo = ""
    /\ Written

\* a record annotated by the user is rebuilt from an AI answer that carries
\* its own memo, and keeps the user's memo and category
C5_Witness ==
    /\ pc = "done"
    /\ \E n \in DOMAIN kept :
          /\ kept[n].how = "fresh"
          /\ HasPrev(kept[n].sid)
          /\ PrevRecord(kept[n].sid).memo = "watch for earnings"
          /\ file.v[FinalIndex(n)].memo = "watch for earnings"
          /\ file.v[FinalIndex(n)].category = "core holding"
          /\ file.v[FinalIndex(n)].ai_model # <<"N/A">>
          /\ file.v[FinalIndex(n)].industry # JObj(EmptyFcn)

\* C6: for a target whose fact collection reports total failure (price 0)
\* and that has a previous record, the run holds that previous record,
\* equal in every field.
C6_CarryThrough ==
    /\ \A n \in DOMAIN kept :
          (kept[n].why = "zero" /\ HasPrev(kept[n].sid)) =>
              /\ kept[n].how = "carried"
              /\ final[FinalIndex(n)] = PrevRecord(kept[n].sid)
    /\ Written

\* a record of an earlier run is written again with its old time
C6_Witness ==
    /\ pc = "done"
    /\ \E n \in DOMAIN kept :
          /\ kept[n].why = "zero"
          /\ kept[n].how = "carried"
          /\ file.v[FinalIndex(n)].lastUpdated < now

\* position of the first occurrence of x in s
FirstPos(s, x) == CHOOSE n \in DOMAIN s : s[n] = x /\ \A m \in 1..(n - 1) : s[m] # x

C8_UniqueIds ==
    pc = "done" =>
       \A i, j \in DOMAIN file.v : i # j => file.v[i].id # file.v[j].id

\* C9: whatever fails for single tickers, no exception ends the run, every
\* target is processed exactly once in order, the run reaches the final
\* write, and the list written holds one record per target that was
\* produced or carried over.
C9_BatchCompletes ==
    /\ [](pc # "crashed")
    /\ [](pc = "done" =>
            /\ [n \in DOMAIN kept |-> kept[n].sid] = targets
            /\ file = [kind |-> "list", v |-> final]
            /\ Len(final) = FinalIndex(Len(kept)))
    /\ (pc = "loop") ~> (pc = "done")

\* a run in which one ticker failed by exception and another by price 0
C9_Witness ==
    /\ pc = "done"
    /\ \E n, m \in DOMAIN kept : kept[n].why = "except" /\ kept[m].why = "zero"

\* equal lists but for lastUpdated
SameButStamp(a, b) ==
    /\ Len(a) = Len(b)
    /\ \A n \in DOMAIN a :
          [a[n] EXCEPT !.lastUpdated = 0] = [b[n] EXCEPT !.lastUpdated = 0]

\* the second of two runs without key, without --add and on an unchanged
\* market has written
TwiceDone == frozen = 2 /\ pc = "done"

\* C10 as claimed: the second state equals the first but for lastUpdated,
\* and every record of it has model-used "N/A" and the default AI sections.
C10_AllRecordsDefault ==
    TwiceDone =>
       /\ SameButStamp(file.v, current)
       /\ \A n \in DOMAIN file.v :
             /\ file.v[n].ai_model = <<"N/A">>
             /\ HasAiDefaults(file.v[n])

\* C10 as amended: the second state equals the first but for lastUpdated,
\* and every record the run built has model-used "N/A" and the default AI
\* sections.
C10_Idempotent ==
    TwiceDone =>
       /\ SameButStamp(file.v, current)
       /\ file.v = final
       /\ \A n \in DOMAIN kept :
             kept[n].how = "fresh" =>
                /\ final[FinalIndex(n)].ai_model = <<"N/A">>
                /\ HasAiDefaults(final[FinalIndex(n)])

\* the second run rebuilt a record: only its time differs from the first
C10_Witness ==
    /\ TwiceDone
    /\ \E n \in DOMAIN kept :
          /\ kept[n].how = "fresh"
          /\ file.v[FinalIndex(n)].lastUpdated # current[FinalIndex(n)].lastUpdated
          /\ file.v[FinalIndex(n)].basicInfo = current[FinalIndex(n)].basicInfo

(***************************************************************************)
(* Claims about the model catalog (checked under SpecCatalog)              *)
(***************************************************************************)
\* the names listed with content generation, in listing order
Generative ==
    LET g == SelectSeq(listing.models,
                       LAMBDA m : "generateContent" \in m.supported_generation_methods)
    IN  [n \in DOMAIN g |-> g[n].name]

IsExp(m) == "exp" \in Range(m)
IsPro(m) == "pro" \in Range(m) /\ "exp" \notin Range(m)
IsFlash(m) == "flash" \in Range(m) /\ "exp" \notin Range(m)

\* the listing came back and holds a generative model of some tier
TieredListing ==
    /\ ~listing.raises
    /\ \E n \in DOMAIN Generative :
          IsExp(Generative[n]) \/ IsPro(Generative[n]) \/ IsFlash(Generative[n])

\* the catalog has been computed
Loaded == pc = "listed"

\* C11: get_best_models always returns, and what it returns is never empty;
\* it is the default list, pro default then flash default, whenever the
\* discovery raises or lists no generative model of a tier.
C11_CatalogNeverEmpty ==
    Loaded =>
      /\ MODEL_PRIORITY # <<>>
      /\ ~TieredListing =>
            MODEL_PRIORITY = << <<"models/", "gemini", "1.5", "pro">>,
                                <<"models/", "gemini", "1.5", "flash">> >>

\* the discovery lists models, none of them of a tier that generates content,
\* and the catalog is the default list
C11_Witness ==
    /\ Loaded
    /\ ~listing.raises
    /\ Len(listing.models) >= 2
    /\ Generative # <<>>
    /\ ~TieredListing
    /\ MODEL_PRIORITY = << <<"models/", "gemini", "1.5", "pro">>,
                           <<"models/", "gemini", "1.5", "flash">> >>

\* number of positions of s that hold x
Count(s, x) == Cardinality({n \in DOMAIN s : s[n] = x})

\* C14: on a listing with a generative model of some tier, the catalog is
\* the experimental models, then the pro models that are not experimental,
\* then the flash models that are not experimental; every tier is in
\* descending order and holds exactly the generative models listed for it,
\* so that a model of no tier or without content generation is absent.
C14_CatalogOrder ==
    (Loaded /\ TieredListing) =>
      LET M == MODEL_PRIORITY
      IN  \E a \in 0..Len(M) : \E b \in a..Len(M) :
            LET E == SubSeq(M, 1, a)
                P == SubSeq(M, a + 1, b)
                F == SubSeq(M, b + 1, Len(M))
                Desc(t) == \A n \in 1..(Len(t) - 1) : ~StrLess(t[n], t[n + 1])
                Names == Range(M) \cup {listing.models[n].name : n \in DOMAIN listing.models}
            IN  /\ Desc(E) /\ Desc(P) /\ Desc(F)
                /\ \A x \in Names :
                      /\ Count(E, x) = IF IsExp(x) THEN Count(Generative, x) ELSE 0
                      /\ Count(P, x) = IF IsPro(x) THEN Count(Generative, x) ELSE 0
                      /\ Count(F, x) = IF IsFlash(x) THEN Count(Generative, x) ELSE 0

\* a listing in another order, with a model of no tier: experimental first,
\* then pro, then flash, the model of no tier left out
C14_Witness ==
    /\ Loaded
    /\ listing.raises = FALSE
    /\ [n \in DOMAIN listing.models |-> listing.models[n].name]
          = << <<"models/", "gemini", "1.5", "flash">>,
               <<"models/", "aqa">>,
               <<"models/", "gemini", "2.0", "pro">>,
               <<"models/", "gemini", "2.0", "flash", "exp">> >>
    /\ MODEL_PRIORITY = << <<"models/", "gemini", "2.0", "flash", "exp">>,
                           <<"models/", "gemini", "2.0", "pro">>,
                           <<"models/", "gemini", "1.5", "flash">> >>

(***************************************************************************)
(* Claims about the state file (checked under SpecFile)                    *)
(***************************************************************************)
\* data.json holds a list of records as the program writes them
WellFormed(f) ==
    /\ f.kind = "list"
    /\ \A n \in DOMAIN f.v :
          /\ {"id", "name", "category", "memo"} \subseteq DOMAIN f.v[n]
          /\ f.v[n].id # NumericId

\* C12: a run that starts on a data.json that is missing, unparsable or not
\* a well-formed list of records does not crash, and where the file is
\* missing, unparsable or not a list it starts from the empty state.  (In
\* the states "loop" and "crashed" of the one run of SpecFile the file is
\* the file the run started on.)
C12_CorruptFileNotFatal ==
    (pc \in {"loop", "crashed"} /\ ~WellFormed(file)) =>
       /\ pc # "crashed"
       /\ file.kind # "list" => current = <<>>

\* C13: the models invoked in one pass of the failover loop are pairwise
\* different identifiers.
C13_NoModelTwice ==
    Called =>
      \A i, j \in DOMAIN last.out.invoked :
         i # j => MODEL_PRIORITY[last.out.invoked[i]] # MODEL_PRIORITY[last.out.invoked[j]]

(***************************************************************************)
(* Claims about the targets of a run and what the run writes               *)
(***************************************************************************)
\* the target id has a previous record, and that record has a name
NamedPrev(sid) == HasPrev(sid) /\ "name" \in DOMAIN PrevRecord(sid)

\* C15: the iteration of a ticker whose call returns no record and that has
\* no previous record with a name adds nothing to the list of the run, and
\* the run writes that list.
C15_DroppedWithoutName ==
    [][ /\ (pc = "loop" /\ idx' = idx + 1 /\ last'.out.ret = "None"
                /\ ~NamedPrev(targets[idx]))
            => final' = final
        /\ (pc = "loop" /\ pc' = "done") => file' = [kind |-> "list", v |-> final]
      ]_vars

\* a newly added id, whose placeholder holds a category only, has price 0 and
\* is absent from what the run wrote
C15_Witness ==
    /\ pc = "done"
    /\ args.add = <<" ", "b", " ">>
    /\ old_map[<<"B">>] = [category |-> "newly added"]
    /\ \E n \in DOMAIN kept : kept[n].sid = <<"B">> /\ kept[n].why = "zero"
    /\ \A m \in DOMAIN file.v : file.v[m].id # <<"B">>

\* the id an --add value stands for, trimmed and in upper case
ExpectedId(add) ==
    CASE add = <<"A">>           -> <<"A">>
      [] add = <<" ", "b", " ">> -> <<"B">>
      [] add = <<"a", ".tw">>    -> <<"A", ".TW">>
      [] OTHER                   -> <<>>

\* C16: with nid the --add value trimmed and in upper case: where nid is not
\* among the previous ids the targets are nid followed by the previous ids
\* and nid has the new-ticker placeholder; where nid is among them, or
\* --add is not given, the targets are the previous ids in their order and
\* every id keeps its previous record.
C16_AddHandling ==
    pc \in {"loop", "done"} =>
      LET add  == args.add
          nid  == ExpectedId(add)
          prev == KeyOrder(Ids(current))
      IN  /\ (add = <<>> \/ nid \in Range(prev)) =>
                /\ targets = prev
                /\ DOMAIN old_map = Range(prev)
          /\ (add # <<>> /\ nid \notin Range(prev)) =>
                /\ targets = <<nid>> \o prev
                /\ DOMAIN old_map = Range(prev) \cup {nid}
                /\ old_map[nid] = [category |-> "newly added"]
          /\ \A i \in Range(prev) : old_map[i] = PrevRecord(i)

\* --add " b " on a list that holds B, annotated by the user: B is not
\* added again and keeps its record
C16_Witness ==
    /\ pc = "done"
    /\ args.add = <<" ", "b", " ">>
    /\ Ids(current) = << <<"B">> >>
    /\ targets = << <<"B">> >>
    /\ old_map[<<"B">>].category = "core holding"
    /\ old_map[<<"B">>].memo = "watch for earnings"
    /\ file.v[1].category = "core holding"

\* C17: a run does not write data.json when it starts nor while a target is
\* left to process; a step of the run either processes the next target and
\* leaves the file alone, or, with every target processed, puts the
\* assembled list in the file and ends the run; a run inside the loop can
\* always take its next step, so that it writes once, at its end.
C17_SingleFinalWrite ==
    /\ [][ /\ (pc # "loop" /\ pc' = "loop") => file' = file
           /\ (pc = "loop" /\ pc' = "loop") =>
                 /\ file' = file
                 /\ idx <= Len(targets)
                 /\ idx' = idx + 1
           /\ (pc = "loop" /\ pc' # "loop") =>
                 /\ pc' = "done"
                 /\ idx > Len(targets)
                 /\ Len(kept) = Len(targets)
                 /\ file' = [kind |-> "list", v |-> final]
         ]_vars
    /\ [](pc = "loop" => ENABLED (ProcessTarget \/ WriteFile))

\* a run on a list of an earlier run has processed two targets and written a
\* list that differs from the one it started on
C17_Witness ==
    /\ pc = "done"
    /\ runs = 2
    /\ Len(kept) = 2
    /\ current # <<>>
    /\ file.v = final
    /\ file.v # current

\* C18: every id of the list a run started on is an id of the list the run
\* has written.
C18_NoTickerLost ==
    pc = "done" =>
       \A n \in DOMAIN current :
          \E m \in DOMAIN file.v : file.v[m].id = current[n].id

\* a run with --add in which every target failed: the new id is left out,
\* the tracked one is still in the file
C18_Witness ==
    /\ pc = "done"
    /\ args.add # <<>>
    /\ Len(current) = 1
    /\ Len(targets) = 2
    /\ \A n \in DOMAIN kept : kept[n].why # "ok"
    /\ file.v = current

====
